---- MODULE Spec2Model ----
(***************************************************************************)
(* The phase-based battle simulation of src/src/utils/simulation.ts        *)
(* (generateSimulation, its frame callback `update`, checkEliminations),   *)
(* with the animation-frame scheduler, the power timers and the caller's   *)
(* callbacks as the environment.                                           *)
(*                                                                         *)
(* Scales.  Lengths and sizes are integers in 1/40 px, so that every       *)
(* constant of the code (0.5, 1.5, 1.95, 22.5 ...) is an integer.  Time is *)
(* in ticks of 6 s, and the frames the model follows are one tick apart    *)
(* (the frames in between are taken to change nothing).                    *)
(* aggressionMultiplier is kept in halves (2 = 1.0), battleDurationMinutes *)
(* and arenaShrinksAt in tenths (20 = 2 min, 7 = 0.7).  A personality's    *)
(* aggression and cowardice are in 1/200 (200 = 1.0).                      *)
(*                                                                         *)
(* Abstractions.  Velocities are floats driven by Math.random; the model   *)
(* keeps which ids have an entry in dotVelocities and lets a frame find    *)
(* every dot on any of the battle's sample points before the wall clamp.   *)
(* As the point a dot is found on does not depend on where it was, x and y *)
(* live within a frame only (the dots the elimination pass works on carry  *)
(* them; state.dots between frames does not).  Every Math.random() < p     *)
(* test is a nondeterministic choice.  Of a personality the model keeps    *)
(* berserker, aggression, cowardice and fleeingFrom; of the behaviour      *)
(* logic, the choice of a dot to flee from.                                *)
(*                                                                         *)
(* SynchronizedBattleEngine (src/src/utils/synchronizedSimulation.tsx)     *)
(* and BattleScheduler (src/src/utils/BattleScheduler.ts) are modelled     *)
(* each on a variable of its own, with the simulation the engine drives    *)
(* reduced to the callbacks it invokes.                                    *)
(***************************************************************************)
EXTENDS Integers, Sequences, FiniteSets, TLC

\* ------------------------------------------------------------- bounds
MaxDots == 3
\* ticks between the page's time origin and the start of the battle
PageAge == 2

\* ---------------------------------------------------------- constants
ARENA_WIDTH == 800 * 40
ARENA_HEIGHT == 600 * 40
SizeFloor == 5 * 40
WallAttrition == 40 \div 2
GrowPerTick == 4 * 6
NoWinner == 0
\* an aggression of 1.0, the cap of Math.min(1, ...)
FullAggression == 200
\* shouldFlee: a threat is larger by 3 px or more
ThreatAdvantage == 3 * 40

PowerTypes == {"speed", "shield", "teleport", "grow"}
NoPower == [type |-> "none", active |-> FALSE, lastUsed |-> 0, cooldown |-> 0, duration |-> 0]

\* 8 + Math.random() * 4 px, sampled
InitSizes == {8 * 40, 10 * 40, 12 * 40}

\* Sample points of the arena (x, y) a frame may find a dot on, before the
\* wall clamp: at the left wall, 20 and 40 px off it, and the centre.
AtWall == <<0, 300 * 40>>
NearWall == <<20 * 40, 300 * 40>>
OffWall == <<40 * 40, 300 * 40>>
Centre == <<400 * 40, 300 * 40>>

DEFAULT_CONFIG ==
  [intensity |-> "normal", aggressionMultiplier |-> 2, battleDurationMinutes |-> 20,
   arenaShrinksAt |-> 7]

VARIABLES
  rpc,               \* the outcome of supabase.rpc("get_battle_settings")
  config,            \* the loaded BattleConfig
  points,            \* the sample points of the arena
  roster,            \* ids of initialState.dots
  dots,              \* state.dots
  eliminationLog,    \* state.eliminationLog
  winner,            \* state.winner (id, NoWinner for null)
  inProgress,        \* state.inProgress
  matchDuration,     \* ticks
  clock,             \* the instant of the last frame (ticks since startTime)
  lastFrameTime,
  scheduled,         \* a requestAnimationFrame callback is pending
  dotVelocities,     \* ids with an entry in the module-level map
  dotPersonalities,  \* the module-level map: id -> personality
  timers,            \* pending setTimeout deactivations
  status,            \* "Running" | "Completed"
  calls,             \* callbacks invoked by the last handler, in order
  completions,       \* arguments of every onComplete call so far
  frame,             \* what the last frame did (kind, phase, events of its pass)
  cancelled,         \* the cancel function has been invoked
  retired,           \* id and eliminations of the dots the filter dropped, in order
  rival,             \* a second battle of the same page, as far as the maps see it
  engine,            \* a SynchronizedBattleEngine and the calls it has sent
  scheduler          \* a BattleScheduler and the intervals it has created

vars == <<rpc, config, points, roster, dots, eliminationLog, winner, inProgress, matchDuration,
          clock, lastFrameTime, scheduled, dotVelocities, dotPersonalities, timers,
          status, calls, completions, frame, cancelled, retired, rival, engine, scheduler>>

\* ------------------------------------------------------------ helpers
Max(a, b) == IF a >= b THEN a ELSE b
Min(a, b) == IF a <= b THEN a ELSE b


RECURSIVE SelectSeqBy(_, _)
\* s.filter(dot => keep has dot.id)
SelectSeqBy(s, keep) ==
  IF s = <<>> THEN <<>>
  ELSE IF Head(s).id \in keep THEN <<Head(s)>> \o SelectSeqBy(Tail(s), keep)
       ELSE SelectSeqBy(Tail(s), keep)

DotIds(ds) == {ds[i].id : i \in DOMAIN ds}

\* ------------------------------------------------------ phase & arena
getBattlePhase(elapsedTime, totalDuration) ==
  IF 10 * elapsedTime < 3 * totalDuration THEN "early"
  ELSE IF 10 * elapsedTime < 7 * totalDuration THEN "middle"
  ELSE IF 10 * elapsedTime < 9 * totalDuration THEN "late"
  ELSE "final"

\* shrinkFactor as a fraction <<numerator, denominator>>
shrinkFactor(phase, elapsedTime, totalDuration, cfg) ==
  LET num == 10 * elapsedTime - cfg.arenaShrinksAt * totalDuration
      den == totalDuration * (10 - cfg.arenaShrinksAt)
  IN  IF num > 0 /\ phase = "late" THEN <<10 * den - 3 * num, 10 * den>>
      ELSE IF num > 0 /\ phase = "final" THEN <<7 * den - 2 * num, 10 * den>>
      ELSE <<1, 1>>

getArenaSize(phase, elapsedTime, totalDuration, cfg) ==
  LET f == shrinkFactor(phase, elapsedTime, totalDuration, cfg)
  IN  [width |-> (ARENA_WIDTH * f[1]) \div f[2],
       height |-> (ARENA_HEIGHT * f[1]) \div f[2],
       centerX |-> ARENA_WIDTH \div 2,
       centerY |-> ARENA_HEIGHT \div 2]

\* variant: a duration proportional to the head count, without the clamp
durationPerHead(cfg, n) == (cfg.battleDurationMinutes * n) \div 20

\* baseDuration * max(0.5, min(2, n / 20)), in ticks of 6 s
computeMatchDuration(cfg, n) ==
  (cfg.battleDurationMinutes * Max(10, Min(40, n))) \div 20

\* -------------------------------------------------- checkEliminations
RECURSIVE PairsFrom(_, _, _)
\* the (i, j) visited by the nested loops, in order
PairsFrom(i, j, n) ==
  IF i > n THEN <<>>
  ELSE IF j > n THEN PairsFrom(i + 1, i + 2, n)
  ELSE <<<<i, j>>>> \o PairsFrom(i, j + 1, n)

phaseElimDistance(phase, cfg) ==
  IF phase = "final" THEN 450 * cfg.aggressionMultiplier ELSE 300 * cfg.aggressionMultiplier

phaseGrowthFactor(phase, cfg) ==
  IF phase = "final" THEN 39 * cfg.aggressionMultiplier ELSE 30 * cfg.aggressionMultiplier

\* variant: any larger dot qualifies
anySizeDiff(cfg) == 1

minSizeDiff(cfg) == Max(40, 80 - 20 * cfg.aggressionMultiplier)

berserkerBonus(cfg) == 10 * cfg.aggressionMultiplier

\* distance < Math.max(dot1.size, dot2.size) + phaseElimDistance
withinElimDistance(dot1, dot2, phase, cfg) ==
  LET dx == dot2.x - dot1.x
      dy == dot2.y - dot1.y
      reach == Max(dot1.size, dot2.size) + phaseElimDistance(phase, cfg)
  IN  dx * dx + dy * dy < reach * reach

\* variant: a shield that protects nobody
neverShielded(dot) == FALSE

shielded(dot) == dot.power.active /\ dot.power.type = "shield"

\* index of the eliminator of the pair, 0 when neither qualifies
pairEliminator(ds, i, j, cfg) ==
  IF ds[i].size > ds[j].size /\ ds[i].size - ds[j].size >= minSizeDiff(cfg) THEN i
  ELSE IF ds[j].size > ds[i].size /\ ds[j].size - ds[i].size >= minSizeDiff(cfg) THEN j
  ELSE 0

\* variant: an elimination counted twice
creditTwice(dot, growth) ==
  [dot EXCEPT !.size = @ + growth, !.eliminations = @ + 2]

\* lines 482-488: the eliminator grows and its counter goes up by one
creditElimination(dot, growth) ==
  [dot EXCEPT !.size = @ + growth, !.eliminations = @ + 1]

\* one iteration of the inner loop on st = [dots, events]
checkPair(st, i, j, phase, cfg, pers) ==
  LET ds == st.dots
      a == pairEliminator(ds, i, j, cfg)
      b == IF a = i THEN j ELSE i
  IN  IF ~withinElimDistance(ds[i], ds[j], phase, cfg) THEN st
      ELSE IF a = 0 THEN st
      ELSE IF shielded(ds[b]) THEN st
      ELSE LET bonus == IF ds[a].id \in DOMAIN pers /\ pers[ds[a].id].berserker
                        THEN berserkerBonus(cfg) ELSE 0
           IN  [dots |-> [ds EXCEPT ![a] = creditElimination(
                                             @, phaseGrowthFactor(phase, cfg) + bonus)],
                events |-> Append(st.events,
                                  [eliminatorId |-> ds[a].id, eliminatedId |-> ds[b].id])]

\* What one iteration did to a pair that met the distance and size tests
\* while the smaller dot held an active shield (an observation of the
\* iteration, not part of it): events recorded, growth and eliminations
\* credited to the larger dot.
sparedBy(st, next, i, j, phase, cfg) ==
  LET ds == st.dots
      a == pairEliminator(ds, i, j, cfg)
      b == IF a = i THEN j ELSE i
  IN  IF /\ withinElimDistance(ds[i], ds[j], phase, cfg)
         /\ a # 0
         /\ ds[b].power.type = "shield"
         /\ ds[b].power.active
      THEN {[larger |-> ds[a].id, smaller |-> ds[b].id,
             events |-> Len(next.events) - Len(st.events),
             grown |-> next.dots[a].size - ds[a].size,
             credited |-> next.dots[a].eliminations - ds[a].eliminations]}
      ELSE {}

\* What one iteration did to its pair, measured on the dots as they were
\* when the pair was checked (an observation of the iteration, not part of
\* it): whether an event was recorded; whether the pair was closer than
\* the larger size plus the margin of 15 px (22.5 px in the final phase)
\* times the multiplier; whether the sizes differed by max(1, 2 -
\* multiplier) or more; and whether the iteration changed nothing but the
\* size and the counter of the event's eliminator, the counter by one.
auditOf(st, next, i, j, phase, cfg) ==
  LET ds == st.dots
      recorded == Len(next.events) = Len(st.events) + 1
      margin == (IF phase = "final" THEN 900 ELSE 600) * cfg.aggressionMultiplier
      reach == 2 * (IF ds[i].size >= ds[j].size THEN ds[i].size ELSE ds[j].size) + margin
      dx == ds[j].x - ds[i].x
      dy == ds[j].y - ds[i].y
      gap == IF ds[i].size >= ds[j].size THEN ds[i].size - ds[j].size
             ELSE ds[j].size - ds[i].size
      least == IF 80 - 20 * cfg.aggressionMultiplier > 40
               THEN 80 - 20 * cfg.aggressionMultiplier ELSE 40
      exact ==
        IF recorded
        THEN LET ev == next.events[Len(next.events)]
             IN  /\ next.events = Append(st.events, ev)
                 /\ ev.eliminatorId \in {ds[i].id, ds[j].id}
                 /\ ev.eliminatedId \in {ds[i].id, ds[j].id}
                 /\ ev.eliminatorId # ev.eliminatedId
                 /\ \A k \in DOMAIN ds :
                      IF k \in {i, j} /\ ds[k].id = ev.eliminatorId
                      THEN /\ next.dots[k].eliminations = ds[k].eliminations + 1
                           /\ next.dots[k].size > ds[k].size
                           /\ [next.dots[k] EXCEPT !.size = 0, !.eliminations = 0]
                                = [ds[k] EXCEPT !.size = 0, !.eliminations = 0]
                      ELSE next.dots[k] = ds[k]
        ELSE next = st
  IN  [recorded |-> recorded,
       close |-> 4 * (dx * dx + dy * dy) < reach * reach,
       enough |-> gap >= least,
       exact |-> exact]

RECURSIVE runPairs(_, _, _, _, _, _, _)
\* the nested loops of lines 443-493 over the remaining pairs
runPairs(st, spared, audit, pairs, phase, cfg, pers) ==
  IF pairs = <<>>
  THEN [dots |-> st.dots, events |-> st.events, spared |-> spared, audit |-> audit]
  ELSE LET i == Head(pairs)[1]
           j == Head(pairs)[2]
           next == checkPair(st, i, j, phase, cfg, pers)
       IN  runPairs(next, spared \cup sparedBy(st, next, i, j, phase, cfg),
                    audit \cup {auditOf(st, next, i, j, phase, cfg)},
                    Tail(pairs), phase, cfg, pers)

\* returns the mutated dots and the events
checkEliminations(ds, phase, cfg, pers) ==
  runPairs([dots |-> ds, events |-> <<>>], {}, {}, PairsFrom(1, 2, Len(ds)), phase, cfg,
           pers)

\* ------------------------------------------------------ initial state
MkDot(i, size, power) ==
  [id |-> i, size |-> size, eliminations |-> 0, power |-> power]

\* performance.now() at the instant c of the battle's clock
currentTime(c) == PageAge + c

\* no second battle has been started
NoRival == [status |-> "absent", roster |-> {}, clock |-> 0]

\* a power as the callers and generateSimulation create it: inactive,
\* lastUsed 0, cooldown 12 s and duration 6 s (in ticks)
MkPower(t) == [type |-> t, active |-> FALSE, lastUsed |-> 0, cooldown |-> 2, duration |-> 1]

\* initializeDotPersonality (lines 104-116); base is the draw of
\* baseAggression, in [0.3, 1), cowardice the draw of random() * 0.6
initializeDotPersonality(cfg, base, cowardice) ==
  [berserker |-> FALSE, aggression |-> (base * cfg.aggressionMultiplier) \div 2,
   cowardice |-> cowardice, fleeingFrom |-> 0]

\* a personality of base aggression 0.5 whose cowardice draw came out 0
SteadyPersonality(cfg) == initializeDotPersonality(cfg, 100, 0)

\* a SynchronizedBattleEngine after its constructor (lines 6-14), with no
\* call sent and no simulation started
NewEngine ==
  [isRunning |-> FALSE, isSyncing |-> FALSE, frameNumber |-> 0, awaiting |-> {},
   sent |-> <<>>, simulation |-> "none", frames |-> 0]

\* a BattleScheduler after its constructor (lines 17-23)
NewScheduler ==
  [isRunning |-> FALSE, intervalId |-> 0, live |-> {}, initializing |-> 0, created |-> 0]

\* The state generateSimulation leaves behind once its promise resolves,
\* for a roster of n dots with the given sizes, power types and
\* personalities and the loaded configuration cfg.
ConstructedWith(cfg, pts, n, sizes, kinds, pers) ==
  /\ rpc = [outcome |-> "data", data |-> cfg]
  /\ config = cfg
  /\ points = pts
  /\ roster = 1..n
  /\ dots = [i \in 1..n |->
               MkDot(i, sizes[i],
                     IF kinds[i] = "none" THEN NoPower ELSE MkPower(kinds[i]))]
  /\ eliminationLog = <<>>
  /\ winner = NoWinner
  /\ inProgress = TRUE
  /\ matchDuration = computeMatchDuration(cfg, n)
  /\ clock = 0
  /\ lastFrameTime = currentTime(0)
  /\ scheduled = TRUE
  /\ dotVelocities = 1..n
  /\ dotPersonalities = pers
  /\ timers = {}
  /\ status = "Running"
  /\ calls = <<>>
  /\ completions = <<>>
  /\ frame = [kind |-> "none", phase |-> "early", events |-> <<>>, spared |-> {},
              audit |-> {}, behaved |-> {}]
  /\ cancelled = FALSE
  /\ retired = <<>>
  /\ rival = NoRival
  /\ engine = NewEngine
  /\ scheduler = NewScheduler

\* the same with every personality a steady one
Constructed(cfg, pts, n, sizes, kinds) ==
  ConstructedWith(cfg, pts, n, sizes, kinds, [i \in 1..n |-> SteadyPersonality(cfg)])

\* Rosters of the main specification: the first dot may hold a power.
InitKinds(n) ==
  {k \in [1..n -> PowerTypes \cup {"none"}] : \A i \in 2..n : k[i] = "none"}

Init ==
  \E n \in 1..MaxDots :
    \E sizes \in [1..n -> InitSizes] :
      \E kinds \in InitKinds(n) :
        Constructed(DEFAULT_CONFIG, {AtWall, Centre}, n, sizes, kinds)

\* ------------------------------------------------------------- frames
RECURSIVE reduceSmallest(_, _)
\* variant: the comparison of the reduce turned around
reduceSmallest(largest, rest) ==
  IF rest = <<>> THEN largest
  ELSE reduceSmallest(IF Head(rest).size < largest.size THEN Head(rest) ELSE largest, Tail(rest))

RECURSIVE reduceLargest(_, _)
\* dots.reduce((largest, current) => current.size > largest.size ? current : largest)
reduceLargest(largest, rest) ==
  IF rest = <<>> THEN largest
  ELSE reduceLargest(IF Head(rest).size > largest.size THEN Head(rest) ELSE largest, Tail(rest))

\* variant: a terminal snapshot that lists the winner only
SnapshotOfWinner(ds, log, w, ip) ==
  [op |-> "onUpdate", dots |-> SelectSeqBy(ds, {w}), eliminationLog |-> log, winner |-> w,
   inProgress |-> ip]

Snapshot(ds, log, w, ip) ==
  [op |-> "onUpdate", dots |-> ds, eliminationLog |-> log, winner |-> w, inProgress |-> ip]

Completion(w) ==
  [op |-> "onComplete", dots |-> <<>>, eliminationLog |-> <<>>, winner |-> w, inProgress |-> FALSE]

\* A frame at instant now runs after every timeout due before now.
timersRun(now) == \A t \in timers : t.due >= now

\* variant: a battle that goes on with a single dot
battleOverWhenEmpty(elapsedTime, total, ds) == elapsedTime >= total \/ Len(ds) < 1

\* the test of line 227
battleOver(elapsedTime, total, ds) == elapsedTime >= total \/ Len(ds) <= 1

\* variant: the completion callback ahead of the last snapshot
completingCallsSwapped(ds, log, w, ip) ==
  (IF w # NoWinner THEN <<Completion(w)>> ELSE <<>>) \o <<Snapshot(ds, log, w, ip)>>

\* the callbacks of the completing branch, in the order of lines 232-235
completingCalls(ds, log, w, ip) ==
  <<Snapshot(ds, log, w, ip)>> \o (IF w # NoWinner THEN <<Completion(w)>> ELSE <<>>)

\* update(), lines 226-237: the battle is over
CompleteFrame ==
  /\ scheduled
  /\ timersRun(currentTime(clock + 1))
  /\ battleOver(clock + 1, matchDuration, dots)
  /\ LET decide == winner = NoWinner /\ Len(dots) > 0
         w == IF decide THEN reduceLargest(dots[1], Tail(dots)).id ELSE winner
         ip == IF decide THEN FALSE ELSE inProgress
         cs == completingCalls(dots, eliminationLog, w, ip)
     IN  /\ winner' = w
         /\ inProgress' = ip
         /\ calls' = cs
         /\ completions' = completions \o SelectSeq(cs, LAMBDA c : c.op = "onComplete")
  /\ clock' = clock + 1
  /\ lastFrameTime' = currentTime(clock + 1)
  /\ scheduled' = FALSE
  /\ status' = "Completed"
  /\ frame' = [kind |-> "complete", phase |-> getBattlePhase(clock + 1, matchDuration),
               events |-> <<>>, spared |-> {}, audit |-> {}, behaved |-> {}]
  /\ UNCHANGED <<engine, scheduler, rpc, config, points, roster, dots, eliminationLog, matchDuration,
                 dotVelocities, dotPersonalities, timers, cancelled, retired, rival>>

\* variant: activation whatever the state of the power
canActivateAlways(d, now) == d.power.type # "none"

\* variant: activation that ignores the cooldown
canActivateAnytime(d, now) ==
  /\ d.power.type # "none"
  /\ ~d.power.active

\* lines 273-277 without the random draw
canActivate(d, now) ==
  /\ d.power.type # "none"
  /\ ~d.power.active
  /\ now - d.power.lastUsed >= d.power.cooldown

\* variant: attrition without the floor
wallBounceNoFloor(c, size, lo, hi, phase) ==
  IF c <= lo + size \/ c >= hi - size
  THEN <<Max(lo + size, Min(hi - size, c)),
         IF phase \in {"late", "final"} THEN size - WallAttrition ELSE size>>
  ELSE <<c, size>>

\* lines 377-392 for one axis: <<coordinate, size>> after the wall test
wallBounce(c, size, lo, hi, phase) ==
  IF c <= lo + size \/ c >= hi - size
  THEN <<Max(lo + size, Min(hi - size, c)),
         IF phase \in {"late", "final"} THEN Max(SizeFloor, size - WallAttrition) ELSE size>>
  ELSE <<c, size>>

\* dot.size += 0.1 * deltaTime while a grow power is active
growBy(power, dt) == IF power.active /\ power.type = "grow" THEN GrowPerTick * dt ELSE 0

\* a dot on the point the frame finds it on
placed(d, x, y) ==
  [id |-> d.id, size |-> d.size, eliminations |-> d.eliminations, power |-> d.power,
   x |-> x, y |-> y]

\* a dot as state.dots keeps it
unplaced(d) ==
  [id |-> d.id, size |-> d.size, eliminations |-> d.eliminations, power |-> d.power]

\* the body of state.dots.forEach (lines 266-401) for one dot: act is the
\* draw of line 277, pos the point the movement carries the dot to
moveDot(d, act, pos, phase, arena, now, dt) ==
  LET power == IF canActivate(d, now) /\ act
               THEN [d.power EXCEPT !.active = TRUE, !.lastUsed = now]
               ELSE d.power
      grown == d.size + growBy(power, dt)
      bx == wallBounce(pos[1], grown, arena.centerX - arena.width \div 2,
                       arena.centerX + arena.width \div 2, phase)
      by == wallBounce(pos[2], bx[2], arena.centerY - arena.height \div 2,
                       arena.centerY + arena.height \div 2, phase)
  IN  placed([d EXCEPT !.power = power, !.size = by[2]], bx[1], by[1])

\* variant: a final phase that converts nobody
phaseWithoutBerserkers(pers, phase) == pers

\* lines 252-260: every personality of the map becomes a berserker, its
\* aggression Math.min(1, aggression * 1.5)
phasePersonalities(pers, phase) ==
  IF phase = "final"
  THEN [i \in DOMAIN pers |->
          [pers[i] EXCEPT !.berserker = TRUE,
                          !.aggression = Min(FullAggression, (3 * @) \div 2)]]
  ELSE pers

\* line 292 without the random draw: the dots that may look for a threat
cowardly(ds, pers, live) ==
  {i \in live : ~pers[ds[i].id].berserker /\ pers[ds[i].id].cowardice > 0}

\* shouldFlee's size test (lines 147-154) for dot i on state.dots as the
\* forEach has left it: the dots ahead of i in the array have moved
threatsOf(ds, moved, i) ==
  {ds[j].id : j \in {k \in DOMAIN ds :
                       /\ ds[k].id # ds[i].id
                       /\ (IF k < i THEN moved[k].size ELSE ds[k].size) - ds[i].size
                            >= ThreatAdvantage}}

\* lines 292-295 for the dots the draw sent looking: the fleeDot of each,
\* 0 when no threat is within 100 px
fleeChoices(ds, moved, cowers) ==
  {f \in [cowers -> {0} \cup DotIds(ds)] :
     \A i \in cowers : f[i] \in {0} \cup threatsOf(ds, moved, i)}

\* line 294: personality.fleeingFrom = fleeDot?.id
behave(pers, ds, cowers, flee) ==
  [id \in DOMAIN pers |->
     IF \E i \in cowers : ds[i].id = id
     THEN [pers[id] EXCEPT !.fleeingFrom = flee[CHOOSE i \in cowers : ds[i].id = id]]
     ELSE pers[id]]

\* What the behaviour logic of a frame saw and chose for each dot it ran
\* on (an observation of the frame): the berserker flag it read, whether
\* it selected a dot to flee from.
behaviourOf(pers, ds, live, cowers, flee) ==
  {[id |-> ds[i].id, berserker |-> pers[ds[i].id].berserker,
    fled |-> i \in cowers /\ flee[i] # 0] : i \in live}

RECURSIVE bonusAggression(_, _, _)
\* lines 486-490 over the events of a pass: a berserker eliminator's
\* aggression becomes Math.min(1, aggression + 0.1 * multiplier)
bonusAggression(pers, events, cfg) ==
  IF events = <<>> THEN pers
  ELSE LET id == Head(events).eliminatorId
       IN  bonusAggression(
             IF id \in DOMAIN pers /\ pers[id].berserker
             THEN [pers EXCEPT ![id].aggression =
                                 Min(FullAggression, @ + 10 * cfg.aggressionMultiplier)]
             ELSE pers,
             Tail(events), cfg)

\* variant: the ids of the eliminators
eliminatorIds(events) == {events[k].eliminatorId : k \in DOMAIN events}

\* the ids the filter of line 407 and the deletions of lines 409-412 go by
eliminatedIds(events) == {events[k].eliminatedId : k \in DOMAIN events}

\* variant: only the first event's victim leaves the roster
pruneFirstEliminated(ds, events) == SelectSeqBy(ds, DotIds(ds) \ {events[1].eliminatedId})

\* line 407
pruneEliminated(ds, events) == SelectSeqBy(ds, DotIds(ds) \ eliminatedIds(events))

\* what the filter of line 407 drops: id and eliminations of each dot
droppedBy(ds, events) ==
  LET gone == SelectSeqBy(ds, eliminatedIds(events))
  IN  [k \in DOMAIN gone |-> [id |-> gone[k].id, eliminations |-> gone[k].eliminations]]

unplacedAll(ds) == [i \in DOMAIN ds |-> unplaced(ds[i])]

\* line 417: whether the frame asks for another one
reschedules(ip) == ip

\* update(), lines 216-225 and 239-420: an ordinary frame.  cancelInUpdate:
\* the caller's onUpdate callback invokes the cancel function.  cowers:
\* the dots whose draw of line 292 sends them looking for a threat.
StepFrame ==
  /\ scheduled
  /\ timersRun(currentTime(clock + 1))
  /\ ~battleOver(clock + 1, matchDuration, dots)
  /\ LET elapsedTime == clock + 1
         now == currentTime(clock + 1)
         phase == getBattlePhase(elapsedTime, matchDuration)
         arena == getArenaSize(phase, elapsedTime, matchDuration, config)
         dt == now - lastFrameTime
         pers == phasePersonalities(dotPersonalities, phase)
         live == {i \in DOMAIN dots :
                    dots[i].id \in DOMAIN pers /\ dots[i].id \in dotVelocities}
     IN  \E acts \in SUBSET {i \in live : canActivate(dots[i], now)} :
         \E moves \in [DOMAIN dots -> points] :
         \E moved \in {[i \in DOMAIN dots |->
                          IF i \in live
                          THEN moveDot(dots[i], i \in acts, moves[i], phase, arena, now, dt)
                          ELSE placed(dots[i], moves[i][1], moves[i][2])]} :
         \E cowers \in SUBSET cowardly(dots, pers, live) :
         \E flee \in fleeChoices(dots, moved, cowers) :
         \E res \in {checkEliminations(moved, phase, config, pers)} :
         \E minds \in {bonusAggression(behave(pers, dots, cowers, flee), res.events,
                                       config)} :
         \E kept \in {unplacedAll(IF res.events # <<>>
                                  THEN pruneEliminated(res.dots, res.events)
                                  ELSE res.dots)} :
         \E cancelInUpdate \in BOOLEAN :
           /\ dots' = kept
           /\ retired' = retired \o droppedBy(res.dots, res.events)
           /\ eliminationLog' = eliminationLog \o res.events
           /\ timers' = timers \cup
                {[id |-> dots[i].id, due |-> now + dots[i].power.duration] : i \in acts}
           /\ calls' = <<Snapshot(kept, eliminationLog \o res.events, winner, inProgress)>>
           /\ IF cancelInUpdate
              THEN /\ dotVelocities' = {}
                   /\ dotPersonalities' = <<>>
                   /\ cancelled' = TRUE
              ELSE /\ dotVelocities' = dotVelocities \ eliminatedIds(res.events)
                   /\ dotPersonalities' =
                        [i \in DOMAIN pers \ eliminatedIds(res.events) |-> minds[i]]
                   /\ cancelled' = cancelled
           /\ scheduled' = reschedules(inProgress)
           /\ frame' = [kind |-> "step", phase |-> phase, events |-> res.events,
                        spared |-> res.spared, audit |-> res.audit,
                        behaved |-> behaviourOf(pers, dots, live, cowers, flee)]
  /\ clock' = clock + 1
  /\ lastFrameTime' = currentTime(clock + 1)
  /\ UNCHANGED <<engine, scheduler, rpc, config, points, roster, winner, inProgress, matchDuration, status,
                 completions, rival>>

\* the setTimeout callback of lines 281-285.  While a frame is pending, its
\* instant is clock + 1 and a timer due by then may run before it; with no
\* frame pending, time passes unobserved.
TimerFire ==
  \E t \in timers :
    /\ scheduled => t.due <= currentTime(clock + 1)
    /\ timers' = timers \ {t}
    /\ dots' = [i \in DOMAIN dots |->
                  IF dots[i].id = t.id /\ dots[i].power.type # "none"
                  THEN [dots[i] EXCEPT !.power.active = FALSE]
                  ELSE dots[i]]
    /\ UNCHANGED <<engine, scheduler, rpc, config, points, roster, eliminationLog, winner, inProgress,
                   matchDuration, clock, lastFrameTime, scheduled, dotVelocities,
                   dotPersonalities, status, calls, completions, frame, cancelled,
                   retired, rival>>

\* the function generateSimulation returns (lines 424-428), invoked by the
\* caller between two handlers; the caller holds it once the promise of
\* generateSimulation has resolved
Cancel ==
  /\ status # "Loading"
  /\ scheduled' = FALSE
  /\ dotVelocities' = {}
  /\ dotPersonalities' = <<>>
  /\ cancelled' = TRUE
  /\ UNCHANGED <<engine, scheduler, rpc, config, points, roster, dots, eliminationLog, winner, inProgress,
                 matchDuration, clock, lastFrameTime, timers, status, calls, completions,
                 frame, retired, rival>>

Next == StepFrame \/ CompleteFrame \/ TimerFire \/ Cancel

Spec == Init /\ [][Next]_vars

\* A crowd: six dots under the default multipliers, a one-minute battle,
\* sample points along the wall.
CrowdSizes == <<10 * 40, 8 * 40, 8 * 40, 8 * 40, 11 * 40, 9 * 40>>
CrowdKinds == <<"none", "shield", "none", "none", "none", "none">>

InitCrowd ==
  Constructed([DEFAULT_CONFIG EXCEPT !.battleDurationMinutes = 10],
              {AtWall, NearWall, OffWall}, Len(CrowdSizes), CrowdSizes, CrowdKinds)

SpecCrowd == InitCrowd /\ [][Next]_vars

\* A long battle: two dots, the first one small and holding a power, five minutes,
\* a dot either at the wall or at the centre.
InitLong ==
  \E size \in InitSizes :
    \E kind \in {"shield", "grow"} :
      Constructed([DEFAULT_CONFIG EXCEPT !.battleDurationMinutes = 50],
                  {AtWall, Centre}, 2, <<8 * 40, size>>, <<kind, "none">>)

SpecLong == InitLong /\ [][Next]_vars

\* ------------------------------------------- the call of generateSimulation
\* loadBattleConfig (lines 27-41) on the outcome of the settings RPC:
\* "throws", "error", "nodata" (data null) or "data"
loadBattleConfig(r) ==
  IF r.outcome = "throws" THEN DEFAULT_CONFIG
  ELSE IF r.outcome = "error" THEN DEFAULT_CONFIG
  ELSE IF r.outcome = "nodata" THEN DEFAULT_CONFIG
  ELSE r.data

\* settings as an administrator stores them: a one-minute intense battle
StoredConfig ==
  [intensity |-> "intense", aggressionMultiplier |-> 3, battleDurationMinutes |-> 10,
   arenaShrinksAt |-> 7]

\* the stored settings without the keys outside keep
Restrict(cfg, keep) == [k \in keep |-> cfg[k]]

\* Outcomes of the RPC.  A settings object may lack the intensity label,
\* which no step of the battle reads.
Responses ==
  {[outcome |-> "throws", data |-> StoredConfig],
   [outcome |-> "error", data |-> StoredConfig],
   [outcome |-> "nodata", data |-> StoredConfig],
   [outcome |-> "data", data |-> StoredConfig],
   [outcome |-> "data", data |-> Restrict(StoredConfig, DOMAIN StoredConfig \ {"intensity"})]}

\* config before loadBattleConfig has resolved
NoConfig == [outcome |-> "pending"]

\* The call generateSimulation(initialState, onUpdate, onComplete) while
\* loadBattleConfig is awaited: rosters of up to two dots with ids from 1..2
\* (empty and duplicate-id rosters included), the first dot may hold a shield.
InitStart ==
  \E n \in 0..2 :
    \E ids \in [1..n -> 1..2] :
      \E sizes \in [1..n -> {8 * 40, 10 * 40}] :
        \E kinds \in {k \in InitKinds(n) : \A i \in 1..n : k[i] \in {"none", "shield"}} :
          \E r \in Responses :
            /\ rpc = r
            /\ config = NoConfig
            /\ points = {AtWall, Centre}
            /\ roster = {ids[i] : i \in 1..n}
            /\ dots = [i \in 1..n |->
                         MkDot(ids[i], sizes[i],
                               IF kinds[i] = "none" THEN NoPower ELSE MkPower(kinds[i]))]
            /\ eliminationLog = <<>>
            /\ winner = NoWinner
            /\ inProgress = TRUE
            /\ matchDuration = 0
            /\ clock = 0
            /\ lastFrameTime = 0
            /\ scheduled = FALSE
            /\ dotVelocities = {}
            /\ dotPersonalities = <<>>
            /\ timers = {}
            /\ status = "Loading"
            /\ calls = <<>>
            /\ completions = <<>>
            /\ frame = [kind |-> "none", phase |-> "early", events |-> <<>>, spared |-> {},
              audit |-> {}, behaved |-> {}]
            /\ cancelled = FALSE
            /\ retired = <<>>
            /\ rival = NoRival
            /\ engine = NewEngine
            /\ scheduler = NewScheduler

\* generateSimulation from the resolution of loadBattleConfig to its return
\* (lines 176-214 and 422-428): the configuration, the duration, an entry
\* in both maps for every dot, the first frame requested.
Start ==
  /\ status = "Loading"
  /\ config' = loadBattleConfig(rpc)
  /\ matchDuration' = computeMatchDuration(loadBattleConfig(rpc), Len(dots))
  /\ lastFrameTime' = currentTime(0)
  /\ dotVelocities' = dotVelocities \cup DotIds(dots)
  /\ dotPersonalities' =
       [id \in DOMAIN dotPersonalities \cup DotIds(dots) |->
          IF id \in DotIds(dots) THEN SteadyPersonality(loadBattleConfig(rpc))
          ELSE dotPersonalities[id]]
  /\ scheduled' = TRUE
  /\ status' = "Running"
  /\ UNCHANGED <<engine, scheduler, rpc, points, roster, dots, eliminationLog, winner, inProgress, clock,
                 timers, calls, completions, frame, cancelled, retired, rival>>

NextStart == Start \/ StepFrame \/ CompleteFrame \/ TimerFire \/ Cancel

SpecStart == InitStart /\ [][NextStart]_vars

\* ------------------------------------------------------ a second battle
\* Another call of generateSimulation on the same page works on the same
\* module-level maps (lines 60-61).  Of that battle the model keeps what
\* the maps can see: the ids of its active dots and its clock; its dots'
\* sizes and positions are free, so any of its dots may be eliminated.
RivalIds == 2..3

\* lines 191-201 of the second battle: an entry in both maps for each dot
RivalStart ==
  /\ rival.status = "absent"
  /\ status # "Loading"
  /\ \E ids \in SUBSET RivalIds \ {{}} :
       /\ rival' = [status |-> "running", roster |-> ids, clock |-> 0]
       /\ dotVelocities' = dotVelocities \cup ids
       /\ dotPersonalities' =
            [id \in DOMAIN dotPersonalities \cup ids |->
               IF id \in ids THEN SteadyPersonality(config) ELSE dotPersonalities[id]]
  /\ UNCHANGED <<engine, scheduler, rpc, config, points, roster, dots, eliminationLog, winner, inProgress,
                 matchDuration, clock, lastFrameTime, scheduled, timers, status, calls,
                 completions, frame, cancelled, retired>>

\* a frame of the second battle (lines 216-420) as the maps see it: the
\* completing branch touches no map; an ordinary frame turns every
\* personality of the map into a berserker in the final phase and deletes
\* the entries of the dots its pass eliminated
RivalFrame ==
  /\ rival.status = "running"
  /\ LET total == computeMatchDuration(config, Cardinality(rival.roster))
         elapsedTime == rival.clock + 1
         phase == getBattlePhase(elapsedTime, total)
     IN  IF elapsedTime >= total \/ Cardinality(rival.roster) <= 1
         THEN /\ rival' = [rival EXCEPT !.status = "done", !.clock = elapsedTime]
              /\ UNCHANGED <<dotVelocities, dotPersonalities>>
         ELSE \E out \in SUBSET rival.roster :
                /\ rival' = [rival EXCEPT !.roster = @ \ out, !.clock = elapsedTime]
                /\ dotVelocities' = dotVelocities \ out
                /\ dotPersonalities' =
                     [id \in DOMAIN dotPersonalities \ out |->
                        phasePersonalities(dotPersonalities, phase)[id]]
  /\ UNCHANGED <<engine, scheduler, rpc, config, points, roster, dots, eliminationLog, winner, inProgress,
                 matchDuration, clock, lastFrameTime, scheduled, timers, status, calls,
                 completions, frame, cancelled, retired>>

\* the cancel function of the second battle (lines 424-428)
RivalCancel ==
  /\ rival.status = "running"
  /\ rival' = [rival EXCEPT !.status = "done"]
  /\ dotVelocities' = {}
  /\ dotPersonalities' = <<>>
  /\ UNCHANGED <<engine, scheduler, rpc, config, points, roster, dots, eliminationLog, winner, inProgress,
                 matchDuration, clock, lastFrameTime, scheduled, timers, status, calls,
                 completions, frame, cancelled, retired>>

\* two dots (ids 1 and 2) under the stored one-minute settings; a second
\* battle may start with dots of ids 2 and 3
InitTwo ==
  \E kind \in {"shield", "grow"} :
    Constructed(StoredConfig, {AtWall, Centre}, 2, <<10 * 40, 8 * 40>>, <<kind, "none">>)

NextTwo ==
  StepFrame \/ CompleteFrame \/ TimerFire \/ Cancel \/ RivalStart \/ RivalFrame \/ RivalCancel

SpecTwo == InitTwo /\ [][NextTwo]_vars

\* ------------------------------------------------------------- tempers
\* Two dots 4 px apart in size under the default or the intense
\* multiplier, the smaller one holding a speed power, a two-minute battle;
\* each dot's base aggression is 0.3 or 0.9 and its cowardice 0 or 0.5.
MoodConfigs == {DEFAULT_CONFIG, [DEFAULT_CONFIG EXCEPT !.aggressionMultiplier = 3]}

InitMood ==
  \E cfg \in MoodConfigs :
    \E bases \in [1..2 -> {60, 180}] :
      \E cowardices \in [1..2 -> {0, 100}] :
        ConstructedWith(cfg, {AtWall, Centre}, 2, <<8 * 40, 12 * 40>>, <<"speed", "none">>,
                        [i \in 1..2 |->
                           initializeDotPersonality(cfg, bases[i], cowardices[i])])

SpecMood == InitMood /\ [][Next]_vars

\* ------------------------------------------- SynchronizedBattleEngine
\* src/src/utils/synchronizedSimulation.tsx.  Of generateSimulation the
\* engine sees the callbacks: onUpdate once per frame and, in the
\* completing frame, onUpdate followed by onComplete when a winner is set
\* (simulation.ts lines 232-235 and 415).  An RPC is in flight from the
\* call that sends it to the action that resumes the code awaiting it.

\* frames of a battle the model follows
MaxFrames == 31

\* line 58: a periodic sync every 30th frame
SyncEvery == 30

\* supabase.rpc("update_live_battle_state") with a state; final: the
\* state has a winner and inProgress false
UpdateCall(final) == [rpc |-> "update_live_battle_state", final |-> final]

CompleteCall == [rpc |-> "complete_battle", final |-> TRUE]

\* syncBattleState (lines 74-98) up to its await; slot names the code
\* that resumes when the RPC returns
syncBattleState(eng, final, slot) ==
  IF eng.isSyncing THEN eng
  ELSE [eng EXCEPT !.isSyncing = TRUE,
                   !.sent = Append(@, UpdateCall(final)),
                   !.awaiting = @ \cup {slot}]

\* completeBattle (lines 100-114) up to its await
completeBattle(eng) ==
  [eng EXCEPT !.sent = Append(@, CompleteCall), !.awaiting = @ \cup {"complete"}]

\* the onUpdate callback (lines 57-62) until it awaits an RPC or returns;
\* a sync that returns at once leaves only the increment
onUpdate(eng, final) ==
  IF eng.isRunning /\ eng.frameNumber % SyncEvery = 0 /\ ~eng.isSyncing
  THEN syncBattleState(eng, final, "periodic")
  ELSE [eng EXCEPT !.frameNumber = @ + 1]

\* the onComplete callback (lines 63-70) until it awaits an RPC
onComplete(eng) ==
  IF eng.isSyncing THEN completeBattle(eng)
  ELSE syncBattleState(eng, TRUE, "final")

\* startSynchronizedBattle, lines 16-52: the initial state is sent
startSynchronizedBattle ==
  /\ engine.simulation = "none"
  /\ engine.sent = <<>>
  /\ engine' = syncBattleState(engine, FALSE, "initial")
  /\ UNCHANGED <<scheduler, rpc, config, points, roster, dots, eliminationLog, winner, inProgress,
                 matchDuration, clock, lastFrameTime, scheduled, dotVelocities,
                 dotPersonalities, timers, status, calls, completions, frame, cancelled,
                 retired, rival>>

\* lines 52-56: the initial sync has returned, generateSimulation is called
InitialSyncReturns ==
  /\ "initial" \in engine.awaiting
  /\ engine' = [engine EXCEPT !.isSyncing = FALSE, !.awaiting = @ \ {"initial"},
                              !.isRunning = TRUE, !.simulation = "running"]
  /\ UNCHANGED <<scheduler, rpc, config, points, roster, dots, eliminationLog, winner, inProgress,
                 matchDuration, clock, lastFrameTime, scheduled, dotVelocities,
                 dotPersonalities, timers, status, calls, completions, frame, cancelled,
                 retired, rival>>

\* an ordinary frame of the simulation calls onUpdate
EngineFrame ==
  /\ engine.simulation = "running"
  /\ engine.frames < MaxFrames
  /\ engine' = [onUpdate(engine, FALSE) EXCEPT !.frames = @ + 1]
  /\ UNCHANGED <<scheduler, rpc, config, points, roster, dots, eliminationLog, winner, inProgress,
                 matchDuration, clock, lastFrameTime, scheduled, dotVelocities,
                 dotPersonalities, timers, status, calls, completions, frame, cancelled,
                 retired, rival>>

\* the completing frame: onUpdate with the terminal snapshot, then
\* onComplete if the battle has a winner
EngineLastFrame ==
  /\ engine.simulation = "running"
  /\ \E won \in BOOLEAN :
       engine' = [(IF won THEN onComplete(onUpdate(engine, TRUE))
                   ELSE onUpdate(engine, FALSE))
                  EXCEPT !.simulation = "over", !.frames = @ + 1]
  /\ UNCHANGED <<scheduler, rpc, config, points, roster, dots, eliminationLog, winner, inProgress,
                 matchDuration, clock, lastFrameTime, scheduled, dotVelocities,
                 dotPersonalities, timers, status, calls, completions, frame, cancelled,
                 retired, rival>>

\* the RPC of a periodic sync returns: lines 93-97, then line 61
PeriodicSyncReturns ==
  /\ "periodic" \in engine.awaiting
  /\ engine' = [engine EXCEPT !.isSyncing = FALSE, !.awaiting = @ \ {"periodic"},
                              !.frameNumber = @ + 1]
  /\ UNCHANGED <<scheduler, rpc, config, points, roster, dots, eliminationLog, winner, inProgress,
                 matchDuration, clock, lastFrameTime, scheduled, dotVelocities,
                 dotPersonalities, timers, status, calls, completions, frame, cancelled,
                 retired, rival>>

\* the RPC of the final sync returns: lines 93-97, then line 68
FinalSyncReturns ==
  /\ "final" \in engine.awaiting
  /\ engine' = completeBattle([engine EXCEPT !.isSyncing = FALSE,
                                             !.awaiting = @ \ {"final"}])
  /\ UNCHANGED <<scheduler, rpc, config, points, roster, dots, eliminationLog, winner, inProgress,
                 matchDuration, clock, lastFrameTime, scheduled, dotVelocities,
                 dotPersonalities, timers, status, calls, completions, frame, cancelled,
                 retired, rival>>

\* complete_battle returns: line 69, stop()
CompleteBattleReturns ==
  /\ "complete" \in engine.awaiting
  /\ engine' = [engine EXCEPT !.awaiting = @ \ {"complete"}, !.isRunning = FALSE]
  /\ UNCHANGED <<scheduler, rpc, config, points, roster, dots, eliminationLog, winner, inProgress,
                 matchDuration, clock, lastFrameTime, scheduled, dotVelocities,
                 dotPersonalities, timers, status, calls, completions, frame, cancelled,
                 retired, rival>>

\* stop() (lines 116-122) called by the owner of the engine
EngineStop ==
  /\ engine.isRunning
  /\ engine' = [engine EXCEPT !.isRunning = FALSE]
  /\ UNCHANGED <<scheduler, rpc, config, points, roster, dots, eliminationLog, winner, inProgress,
                 matchDuration, clock, lastFrameTime, scheduled, dotVelocities,
                 dotPersonalities, timers, status, calls, completions, frame, cancelled,
                 retired, rival>>

\* an engine just constructed, next to a single-dot battle that is left alone
InitSync == Constructed(DEFAULT_CONFIG, {Centre}, 1, <<8 * 40>>, <<"none">>)

NextSync ==
  \/ startSynchronizedBattle
  \/ InitialSyncReturns
  \/ EngineFrame
  \/ EngineLastFrame
  \/ PeriodicSyncReturns
  \/ FinalSyncReturns
  \/ CompleteBattleReturns
  \/ EngineStop

SpecSync == InitSync /\ [][NextSync]_vars

\* ----------------------------------------------------- BattleScheduler
\* src/src/utils/BattleScheduler.ts.  live: the intervals created by
\* setInterval and not cleared; initializing: the start() calls awaiting
\* battleManager.initialize().

\* intervals a scheduler creates
MaxStarts == 5

\* start(), lines 25-32, up to the await
SchedulerStart ==
  /\ ~scheduler.isRunning
  /\ scheduler.created + scheduler.initializing < MaxStarts
  /\ scheduler' = [scheduler EXCEPT !.isRunning = TRUE, !.initializing = @ + 1]
  /\ UNCHANGED <<engine, rpc, config, points, roster, dots, eliminationLog, winner, inProgress,
                 matchDuration, clock, lastFrameTime, scheduled, dotVelocities,
                 dotPersonalities, timers, status, calls, completions, frame, cancelled,
                 retired, rival>>

\* start(), lines 34-40: initialize() has resolved, the interval is set
SchedulerInitialized ==
  /\ scheduler.initializing > 0
  /\ scheduler' = [scheduler EXCEPT !.initializing = @ - 1,
                                    !.created = @ + 1,
                                    !.intervalId = scheduler.created + 1,
                                    !.live = @ \cup {scheduler.created + 1}]
  /\ UNCHANGED <<engine, rpc, config, points, roster, dots, eliminationLog, winner, inProgress,
                 matchDuration, clock, lastFrameTime, scheduled, dotVelocities,
                 dotPersonalities, timers, status, calls, completions, frame, cancelled,
                 retired, rival>>

\* stop(), lines 43-51
SchedulerStop ==
  /\ scheduler' = [scheduler EXCEPT !.live = @ \ {scheduler.intervalId},
                                    !.intervalId = 0,
                                    !.isRunning = FALSE]
  /\ UNCHANGED <<engine, rpc, config, points, roster, dots, eliminationLog, winner, inProgress,
                 matchDuration, clock, lastFrameTime, scheduled, dotVelocities,
                 dotPersonalities, timers, status, calls, completions, frame, cancelled,
                 retired, rival>>

InitScheduler == Constructed(DEFAULT_CONFIG, {Centre}, 1, <<8 * 40>>, <<"none">>)

NextScheduler == SchedulerStart \/ SchedulerInitialized \/ SchedulerStop

SpecScheduler == InitScheduler /\ [][NextScheduler]_vars

\* ------------------------------------------------------------ properties

\* ids the log names as eliminated
LoggedOut(log) == {log[k].eliminatedId : k \in DOMAIN log}

\* C1: a battle of at least one entity is Completed by the first frame whose
\* elapsed time reaches totalDuration, and a Completed battle has invoked
\* onComplete exactly once, never zero times and never twice.
C1_CompletesOnce ==
  /\ (frame.kind # "none" /\ clock >= matchDuration) => status = "Completed"
  /\ status = "Completed" => Len(completions) = 1
  /\ Len(completions) <= 1

\* C2: onComplete(winner) is invoked only right after an onUpdate call of the
\* same frame that carried the terminal snapshot (winner that same entity,
\* inProgress false), and once onComplete has been invoked no frame runs and
\* no callback is invoked any more.
C2_CompleteAfterTerminalUpdate ==
  [][ /\ completions' # completions =>
           /\ Len(calls') = 2
           /\ calls'[1].op = "onUpdate"
           /\ calls'[1].winner = calls'[2].winner
           /\ calls'[1].winner # NoWinner
           /\ calls'[1].inProgress = FALSE
           /\ calls'[2].op = "onComplete"
           /\ completions' = Append(completions, calls'[2])
      /\ completions # <<>> =>
           /\ clock' = clock
           /\ calls' = calls
           /\ completions' = completions ]_vars

C2_Witness ==
  /\ Len(completions) = 1
  /\ Len(calls) = 2
  /\ eliminationLog # <<>>

\* C3: with a roster of exactly one entity the first frame completes the
\* battle: no movement or elimination step runs, the winner is that entity,
\* the elimination log is empty and onComplete is called with that entity.
C3_SingleEntity ==
  (Cardinality(roster) = 1 /\ frame.kind # "none") =>
     /\ frame.kind = "complete"
     /\ clock = 1
     /\ status = "Completed"
     /\ winner \in roster
     /\ Len(dots) = 1
     /\ dots[1].id = winner
     /\ dots[1].size \in InitSizes
     /\ dots[1].eliminations = 0
     /\ eliminationLog = <<>>
     /\ completions = <<Completion(winner)>>

C3_Witness ==
  /\ Cardinality(roster) = 1
  /\ status = "Completed"

\* C4: when the battle completes by time expiry with more than one entity
\* still active, the declared winner is an active entity at least as large
\* as every other active entity.
C4_WinnerBySize ==
  (status = "Completed" /\ Len(dots) > 1) =>
     /\ clock >= matchDuration
     /\ \E i \in DOMAIN dots :
          /\ dots[i].id = winner
          /\ \A j \in DOMAIN dots : dots[j].size <= dots[i].size

C4_Witness ==
  /\ status = "Completed"
  /\ Len(dots) = 3
  /\ winner = dots[2].id
  /\ dots[1].size < dots[3].size
  /\ dots[3].size < dots[2].size

\* C5: no entity id occurs as eliminatedId in more than one event of the
\* elimination log, two events of the same frame's elimination pass included.
C5_NoDuplicateEliminated ==
  \A a, b \in DOMAIN eliminationLog :
    a # b => eliminationLog[a].eliminatedId # eliminationLog[b].eliminatedId

\* C6: in every snapshot passed to onUpdate the number of active entities
\* plus the number of distinct eliminatedId values of the log equals the
\* initial roster size, and no active entity's id occurs as an eliminatedId.
C6_ActiveSetConservation ==
  \A k \in DOMAIN calls :
    calls[k].op = "onUpdate" =>
      /\ Len(calls[k].dots) + Cardinality(LoggedOut(calls[k].eliminationLog))
           = Cardinality(roster)
      /\ \A i \in DOMAIN calls[k].dots :
           calls[k].dots[i].id \notin LoggedOut(calls[k].eliminationLog)

C6_Witness ==
  /\ Len(calls) = 1
  /\ Len(calls[1].dots) = 1
  /\ Len(frame.events) = 2
  /\ Cardinality(roster) = 3

\* C7: for a pair that meets the distance and size-difference conditions
\* while the smaller entity's shield is active, the elimination pass records
\* no event for the pair and leaves the larger entity's size and
\* eliminations counter as they were.
C7_ShieldImmunity ==
  \A r \in frame.spared :
    /\ r.events = 0
    /\ r.grown = 0
    /\ r.credited = 0

C7_Witness ==
  \E r \in frame.spared :
    \E i \in DOMAIN dots : dots[i].id = r.smaller

\* C8: among the elimination events of a single frame no entity id is the
\* eliminatorId of one event and the eliminatedId of another or the same
\* event: an entity marked eliminated takes part in no later pair check of
\* the frame, and an entity that eliminated another is not itself eliminated
\* in that frame.
C8_EliminatorNotEliminated ==
  \A a, b \in DOMAIN frame.events :
    frame.events[a].eliminatorId # frame.events[b].eliminatedId

\* the size of the dot with this id in a roster
SizeOf(ds, id) == LET i == CHOOSE k \in DOMAIN ds : ds[k].id = id IN ds[i].size

GrowsActive(ds, id) ==
  \E k \in DOMAIN ds :
    ds[k].id = id /\ ds[k].power.type = "grow" /\ ds[k].power.active

\* C9: every entity's size is positive and never below the floor of 5; a
\* size increases only in a frame where the entity wins an elimination or
\* holds an active grow power, and decreases only in a frame of the late or
\* final phase (the wall attrition).
C9_SizeBounds ==
  /\ [](\A i \in DOMAIN dots : dots[i].size > 0 /\ dots[i].size >= SizeFloor)
  /\ [][\A id \in DotIds(dots) \cap DotIds(dots') :
          /\ SizeOf(dots', id) > SizeOf(dots, id) =>
               \/ \E k \in DOMAIN frame'.events : frame'.events[k].eliminatorId = id
               \/ GrowsActive(dots', id)
          /\ SizeOf(dots', id) < SizeOf(dots, id) =>
               /\ clock' = clock + 1
               /\ frame'.kind = "step"
               /\ frame'.phase \in {"late", "final"}
               /\ SizeOf(dots, id) - SizeOf(dots', id) <= 2 * WallAttrition]_vars

C9_Witness ==
  /\ frame.kind = "step"
  /\ frame.phase = "final"
  /\ \E i \in DOMAIN dots : dots[i].size = SizeFloor

\* whether a sequence of dots names some id twice
DuplicateIds(ds) == \E i, j \in DOMAIN ds : i # j /\ ds[i].id = ds[j].id

\* C11: a call with an empty roster, or with a roster holding two entities
\* of the same id, is rejected before any frame runs: no frame, no onUpdate
\* and no onComplete.
C11_InvalidRosterRejected ==
  (status # "Loading" /\ (roster = {} \/ DuplicateIds(dots))) =>
     /\ frame.kind = "none"
     /\ calls = <<>>
     /\ completions = <<>>

\* C12: with two battles interleaved, no step of one battle (its
\* initialisation, a frame, the removal of its eliminated entities, the
\* final-phase berserker conversion, its cancel) changes the velocity or
\* personality entry of an entity of the other battle, also when both
\* rosters hold the same id.
C12_BattlesIsolated ==
  [][rival' # rival =>
       \A i \in DOMAIN dots :
         /\ (dots[i].id \in dotVelocities) = (dots[i].id \in dotVelocities')
         /\ (dots[i].id \in DOMAIN dotPersonalities)
              = (dots[i].id \in DOMAIN dotPersonalities')
         /\ dots[i].id \in DOMAIN dotPersonalities \cap DOMAIN dotPersonalities' =>
              dotPersonalities'[dots[i].id] = dotPersonalities[dots[i].id]]_vars

\* C13: the configuration loadBattleConfig returns has a value for every
\* recognised key: the stored value when the RPC returned that key, the
\* DEFAULT_CONFIG value for a key the settings object lacks, and the whole
\* DEFAULT_CONFIG when the RPC reports an error, throws or returns no data.
C13_ConfigComplete ==
  status # "Loading" =>
    /\ DOMAIN config = DOMAIN DEFAULT_CONFIG
    /\ \A k \in DOMAIN DEFAULT_CONFIG :
         config[k] = IF rpc.outcome = "data" /\ k \in DOMAIN rpc.data
                     THEN rpc.data[k]
                     ELSE DEFAULT_CONFIG[k]

\* C14: once the battle is Completed nothing of the simulation state
\* changes: the active list with every field of every entity (the active
\* flag of a power whose timer was pending included), the log, the winner.
C14_CompletedIsFinal ==
  [][status = "Completed" =>
       /\ dots' = dots
       /\ eliminationLog' = eliminationLog
       /\ winner' = winner
       /\ inProgress' = inProgress]_vars

\* C15: every snapshot passed to onUpdate with inProgress true and no winner
\* holds at least two active entities and comes from a frame whose elapsed
\* time is below totalDuration.
C15_InProgressSnapshot ==
  \A k \in DOMAIN calls :
    (calls[k].op = "onUpdate" /\ calls[k].inProgress /\ calls[k].winner = NoWinner) =>
       /\ Len(calls[k].dots) >= 2
       /\ clock < matchDuration

\* C16: when the battle is Completed, the velocity and personality maps hold
\* no entry for any entity of its roster.
C16_MapsReleased ==
  status = "Completed" =>
    /\ roster \cap dotVelocities = {}
    /\ roster \cap DOMAIN dotPersonalities = {}

\* C17: a power goes from inactive to active only in a frame in which
\* frameTime - lastUsed >= cooldown, and the activation sets lastUsed to
\* the frame time; lastUsed changes in no other way, so two activations of
\* a power are at least cooldown apart.
C17_ActivationAfterCooldown ==
  [][\A i \in DOMAIN dots : \A j \in DOMAIN dots' :
       dots[i].id = dots'[j].id =>
         /\ (~dots[i].power.active /\ dots'[j].power.active) =>
               /\ frame'.kind = "step"
               /\ clock' = clock + 1
               /\ currentTime(clock') - dots[i].power.lastUsed >= dots[i].power.cooldown
               /\ dots'[j].power.lastUsed = currentTime(clock')
         /\ dots'[j].power.lastUsed # dots[i].power.lastUsed =>
               /\ ~dots[i].power.active
               /\ dots'[j].power.active
               /\ dots'[j].power.lastUsed - dots[i].power.lastUsed
                    >= dots[i].power.cooldown]_vars

C17_Witness ==
  \E i \in DOMAIN dots :
    /\ dots[i].power.active
    /\ dots[i].power.lastUsed = currentTime(clock)
    /\ dots[i].power.lastUsed >= currentTime(1) + dots[i].power.cooldown

\* C18: no frame observes a power as active when frameTime - lastUsed >=
\* duration (the deactivation that follows every activation has run by
\* then).
C18_NoOverdueActive ==
  [][(frame'.kind = "step" /\ clock' = clock + 1) =>
       \A i \in DOMAIN dots :
         dots[i].power.active =>
           currentTime(clock') - dots[i].power.lastUsed < dots[i].power.duration]_vars

\* C19: the elimination pass records an event for a pair only if the pair
\* is closer than max(size_a, size_b) + margin and, at the moment it is
\* checked, its sizes differ by at least max(1, 2 - aggressionMultiplier);
\* a pair of equal sizes or of a smaller difference yields no event.
C19_EventOnlyWhenCloseAndLarger ==
  \A a \in frame.audit :
    /\ a.recorded => (a.close /\ a.enough)
    /\ ~a.enough => ~a.recorded

C19_Witness ==
  /\ \E a \in frame.audit : a.recorded
  /\ \E a \in frame.audit : a.close /\ ~a.enough /\ ~a.recorded

RECURSIVE SumEliminations(_)
SumEliminations(ds) ==
  IF ds = <<>> THEN 0 ELSE Head(ds).eliminations + SumEliminations(Tail(ds))

\* C20: each recorded event raises exactly its eliminator's eliminations
\* counter by one and grows only its eliminator's size; so the eliminations
\* counters of all entities of the initial roster, active or eliminated,
\* add up to the length of the elimination log.
C20_EliminationsMatchLog ==
  /\ \A a \in frame.audit : a.exact
  /\ SumEliminations(dots) + SumEliminations(retired) = Len(eliminationLog)

C20_Witness ==
  /\ Len(eliminationLog) >= 2
  /\ \E k \in DOMAIN retired : retired[k].eliminations > 0
  /\ \E i \in DOMAIN dots : dots[i].eliminations > 0

\* C21: in a frame of the final phase every dot the behaviour logic runs on
\* has a berserker personality when the logic reads it, and these are all
\* the active dots unless the maps were cleared; a berserker selects no dot
\* to flee from; and the berserker flag of a personality, once set, stays
\* set for as long as the battle keeps the personality.
C21_BerserkersInFinal ==
  /\ [](frame.kind = "step" =>
          /\ frame.phase = "final" =>
               /\ \A b \in frame.behaved : b.berserker
               /\ ~cancelled => DotIds(dots) \subseteq {b.id : b \in frame.behaved}
          /\ \A b \in frame.behaved : b.berserker => ~b.fled)
  /\ [][\A id \in DOMAIN dotPersonalities \cap DOMAIN dotPersonalities' :
          dotPersonalities[id].berserker => dotPersonalities'[id].berserker]_vars

\* a final-phase frame has run on a dot that is given to cowardice while a
\* dot 3 px larger is in the arena
C21_Witness ==
  /\ frame.kind = "step"
  /\ frame.phase = "final"
  /\ \E i, j \in DOMAIN dots :
       /\ dots[i].id \in {b.id : b \in frame.behaved}
       /\ dots[i].id \in DOMAIN dotPersonalities
       /\ dotPersonalities[dots[i].id].cowardice > 0
       /\ dotPersonalities[dots[i].id].berserker
       /\ dots[j].size - dots[i].size >= ThreatAdvantage

\* C22: under every configuration the aggression and the cowardice of every
\* personality are within [0, 1] from initialisation on, and no frame
\* lowers the aggression of a personality (neither the conversion of the
\* final phase nor the bonus of a berserker's elimination does).
C22_TemperWithinUnit ==
  /\ [](\A id \in DOMAIN dotPersonalities :
          /\ dotPersonalities[id].aggression \in 0..FullAggression
          /\ dotPersonalities[id].cowardice \in 0..FullAggression)
  /\ [][\A id \in DOMAIN dotPersonalities \cap DOMAIN dotPersonalities' :
          dotPersonalities'[id].aggression >= dotPersonalities[id].aggression]_vars

\* the second half taken alone: no frame lowers an aggression
C22_AggressionNeverLowered ==
  [][\A id \in DOMAIN dotPersonalities \cap DOMAIN dotPersonalities' :
       dotPersonalities'[id].aggression >= dotPersonalities[id].aggression]_vars

\* the shrink profile C23 describes, as a fraction: 1 up to arenaShrinksAt,
\* then linear down to 0.7 at the end of the late phase (progress 0.9),
\* then linear down to 0.5 at progress 1
linearShrink(elapsedTime, totalDuration, cfg) ==
  IF 10 * elapsedTime <= cfg.arenaShrinksAt * totalDuration THEN <<1, 1>>
  ELSE IF 10 * elapsedTime < 9 * totalDuration
  THEN LET span == (9 - cfg.arenaShrinksAt) * totalDuration
       IN  <<10 * span - 3 * (10 * elapsedTime - cfg.arenaShrinksAt * totalDuration),
             10 * span>>
  ELSE <<7 * totalDuration - 2 * (10 * elapsedTime - 9 * totalDuration), 10 * totalDuration>>

\* the arena of the frame at instant c of the battle
arenaAt(c) == getArenaSize(getBattlePhase(c, matchDuration), c, matchDuration, config)

\* C23: the arena a frame computes is the full 800 x 600 while progress <=
\* arenaShrinksAt, then shrinks linearly to 70% at the end of the late phase
\* and on to 50% at progress 1, is centred on (400, 300), and is never
\* larger than the arena of the frame before.
C23_ArenaShrinksLinearly ==
  (frame.kind # "none" /\ clock <= matchDuration) =>
    LET f == shrinkFactor(getBattlePhase(clock, matchDuration), clock, matchDuration, config)
        g == linearShrink(clock, matchDuration, config)
    IN  /\ f[1] * g[2] = g[1] * f[2]
        /\ arenaAt(clock).centerX = 400 * 40
        /\ arenaAt(clock).centerY = 300 * 40
        /\ arenaAt(clock).width <= arenaAt(clock - 1).width
        /\ arenaAt(clock).height <= arenaAt(clock - 1).height

\* what holds of C23: full size up to arenaShrinksAt, 50% at progress 1,
\* the centre, and an arena that never grows
C23_ArenaNeverGrows ==
  (frame.kind # "none" /\ clock <= matchDuration) =>
    /\ 10 * clock <= config.arenaShrinksAt * matchDuration =>
         arenaAt(clock).width = ARENA_WIDTH /\ arenaAt(clock).height = ARENA_HEIGHT
    /\ clock = matchDuration =>
         2 * arenaAt(clock).width = ARENA_WIDTH /\ 2 * arenaAt(clock).height = ARENA_HEIGHT
    /\ arenaAt(clock).centerX = 400 * 40
    /\ arenaAt(clock).centerY = 300 * 40
    /\ arenaAt(clock).width <= arenaAt(clock - 1).width
    /\ arenaAt(clock).height <= arenaAt(clock - 1).height

\* participantCount / 20 clamped to [0.5, 2], times 20
clampedCount(n) == IF n < 10 THEN 10 ELSE IF n > 40 THEN 40 ELSE n

\* C24: the duration of a battle is the base duration times the roster's
\* size / 20 clamped to [0.5, 2], a value that does not decrease with the
\* size of the roster; no step changes it, eliminations included, and every
\* frame takes its phase from it and completes exactly when the elapsed
\* time has reached it or at most one dot is left.
C24_DurationFixed ==
  /\ [](/\ 20 * matchDuration = config.battleDurationMinutes * clampedCount(Cardinality(roster))
        /\ \A n \in 1..45 :
             /\ 20 * computeMatchDuration(config, n)
                  <= config.battleDurationMinutes * clampedCount(n)
             /\ config.battleDurationMinutes * clampedCount(n)
                  < 20 * (computeMatchDuration(config, n) + 1)
             /\ computeMatchDuration(config, n) <= computeMatchDuration(config, n + 1)
        /\ frame.kind # "none" => frame.phase = getBattlePhase(clock, matchDuration))
  /\ [][/\ matchDuration' = matchDuration
        /\ clock' = clock + 1 =>
             (frame'.kind = "complete" <=> (clock' >= matchDuration \/ Len(dots) <= 1))]_vars

\* a frame has run on a roster that eliminations of earlier frames had
\* made smaller
C24_Witness ==
  /\ frame.kind = "step"
  /\ Len(eliminationLog) > Len(frame.events)
  /\ Len(dots) + Len(eliminationLog) - Len(frame.events) <= Cardinality(roster)
  /\ Len(dots) >= 2

C26_WinnerStandsLast ==
  \A k \in DOMAIN completions :
    /\ completions[k].winner \in roster
    /\ completions[k].winner \notin LoggedOut(eliminationLog)
    /\ calls # <<>>
    /\ calls[1].op = "onUpdate"
    /\ ~calls[1].inProgress
    /\ completions[k].winner \in DotIds(calls[1].dots)

\* a battle in which dots were eliminated has passed a winner to onComplete
C26_Witness ==
  /\ completions # <<>>
  /\ eliminationLog # <<>>
  /\ Len(dots) >= 2

C28_TimerOwnsActivation ==
  /\ \A i \in DOMAIN dots :
       dots[i].power.type # "none" => dots[i].power.cooldown >= dots[i].power.duration
  /\ \A t \in timers :
       /\ \A u \in timers : u.id = t.id => u = t
       /\ \A i \in DOMAIN dots :
            dots[i].id = t.id =>
              /\ dots[i].power.active
              /\ t.due = dots[i].power.lastUsed + dots[i].power.duration

\* the timer of a second activation is pending: the power was activated
\* again a cooldown or more after the battle's first frame
C28_Witness ==
  \E t \in timers : \E i \in DOMAIN dots :
    /\ dots[i].id = t.id
    /\ dots[i].power.active
    /\ dots[i].power.lastUsed >= currentTime(1) + dots[i].power.cooldown

\* C29: whenever complete_battle is sent, an update_live_battle_state
\* carrying the final state (winner set, inProgress false) was sent before
\* it, also when the sync of an earlier frame is in flight at completion.
C29_FinalStateBeforeComplete ==
  \A k \in DOMAIN engine.sent :
    engine.sent[k].rpc = "complete_battle" =>
      \E j \in 1..(k - 1) :
        /\ engine.sent[j].rpc = "update_live_battle_state"
        /\ engine.sent[j].final

\* C30: under any interleaving of start() and stop() at most one interval
\* is live, and none is live while isRunning is false.
C30_OneIntervalWhileRunning ==
  /\ Cardinality(scheduler.live) <= 1
  /\ ~scheduler.isRunning => scheduler.live = {}

\* C10: once the cancel function has been invoked before completion, no
\* further frame runs, neither onUpdate nor onComplete is invoked and the
\* velocity and personality maps hold no entry.
C10_CancelHalts ==
  /\ [](cancelled => (dotVelocities = {} /\ DOMAIN dotPersonalities = {}))
  /\ [][(cancelled /\ status # "Completed") =>
          /\ clock' = clock
          /\ calls' = calls
          /\ completions' = completions]_vars

====
